---- MODULE Spec2Model ----
(***************************************************************************)
(* Health-Calculator (app.py): the calculation engines (BMI, BMR, Navy     *)
(* body fat, Devine/Hamwi ideal weight), the two tab handlers that post-   *)
(* process engine results, and the Health Tips carousel kept in            *)
(* st.session_state.                                                       *)
(*                                                                         *)
(* Number representation.  The program computes on Python floats; the     *)
(* model uses exact scaled integers:                                       *)
(*   bmi            hundredths            (round(bmi, 2))                  *)
(*   bmr           eighths of a kcal before rounding, whole kcal after     *)
(*   body fat       tenths of a percent   (round(bf, 1))                   *)
(*   ideal weight   tenths of a kg        (round(ideal, 1))                *)
(*   heights        cm, half cm or tenths of a cm, as named by the suffix  *)
(* Python's round() is round-half-to-even on the stored double; wherever   *)
(* the exact value is representable (or is never a tie) the model rounds   *)
(* the exact rational the same way.  The only ties on non-representable    *)
(* products (x * 0.95, x * 1.05 with x an odd whole number of kg) are      *)
(* resolved by the tables TieUp095 / TieDown105, which list what IEEE-754  *)
(* double arithmetic produces for them.                                    *)
(* Strings that are inspected character by character (gender) are          *)
(* sequences of one-character strings; None is the record NoneVal.         *)
(***************************************************************************)
EXTENDS Integers, Sequences, FiniteSets, TLC

VARIABLES session_state, page, clicks, call

vars == <<session_state, page, clicks, call>>

-----------------------------------------------------------------------------
(* Bounds of the model *)

MaxClicks == 6          \* Prev/Next clicks followed in one session
MaxBmi100 == 3100       \* largest bmi (hundredths) passed to bmi_category
MaxWeightKg == 72       \* largest weight passed to calculate_bmr
MaxHeightHalfCm == 344  \* largest height (half cm) passed to calculate_bmr
MaxHeight10 == 1545     \* top of the dense height range (tenths of a cm)
MaxBf10 == 330          \* largest body fat (tenths) passed to bf_interpretation

-----------------------------------------------------------------------------
(* Python values *)

NoneVal == [none |-> TRUE]

Num(x) == [v |-> x]

\* str.lower() on the characters that occur in the model's strings
LowerChar(c) ==
    CASE c = "M" -> "m"
      [] c = "A" -> "a"
      [] c = "L" -> "l"
      [] c = "E" -> "e"
      [] c = "F" -> "f"
      [] c = "X" -> "x"
      [] OTHER -> c

Lower(s) == [i \in DOMAIN s |-> LowerChar(s[i])]

\* the list literal ["male", "m"]
MaleAliases == {<<"m", "a", "l", "e">>, <<"m">>}

\* the list literal ["female", "f"]
FemaleAliases == {<<"f", "e", "m", "a", "l", "e">>, <<"f">>}

\* round(x, n) of a value n/d with d > 0: nearest, ties to even
RoundHalfEven(n, d) ==
    LET q == n \div d
        r == n % d
    IN  IF 2 * r < d THEN q
        ELSE IF 2 * r > d THEN q + 1
        ELSE IF q % 2 = 0 THEN q ELSE q + 1

Min(a, b) == IF a <= b THEN a ELSE b

Max(a, b) == IF a >= b THEN a ELSE b

HEALTH_TIPS ==
    << "Drink 8 glasses of water daily",
       "Get at least 7 hours of sleep",
       "Stretch for 5 minutes every hour",
       "Aim for 150 minutes of moderate exercise per week",
       "Include vegetables and protein with every meal",
       "Walk for 30 minutes after lunch if possible" >>

-----------------------------------------------------------------------------
(* BMI *)

\* an exception leaving a function
Raise(e) == [exc |-> e]

\* weight in kg, height in cm (whole numbers); result in hundredths
\* bmi = weight_kg / (height_cm / 100) ** 2 = weight_kg * 10^4 / height_cm^2
calculate_bmi(weight_kg, height_cm) ==
    IF height_cm <= 0 THEN NoneVal
    ELSE IF height_cm * height_cm = 0 THEN Raise("ZeroDivisionError")
    ELSE Num(RoundHalfEven(weight_kg * 1000000, height_cm * height_cm))

\* mutant: the Normal/Overweight edge is exclusive below (bmi <= 25 is Normal)
bmi_category_edge25(bmi) ==
    IF bmi = NoneVal THEN "Invalid"
    ELSE IF bmi.v < 1850 THEN "Underweight"
    ELSE IF 1850 <= bmi.v /\ bmi.v <= 2500 THEN "Normal"
    ELSE IF 2500 < bmi.v /\ bmi.v < 3000 THEN "Overweight"
    ELSE "Obese"

\* bmi is NoneVal or Num(hundredths)
bmi_category(bmi) ==
    IF bmi = NoneVal THEN "Invalid"
    ELSE IF bmi.v < 1850 THEN "Underweight"
    ELSE IF 1850 <= bmi.v /\ bmi.v < 2500 THEN "Normal"
    ELSE IF 2500 <= bmi.v /\ bmi.v < 3000 THEN "Overweight"
    ELSE "Obese"

-----------------------------------------------------------------------------
(* BMR (Mifflin-St Jeor) *)

\* mutant: ties rounded up (floor(x + 0.5)) instead of Python's round()
calculate_bmr_half_up(gender, age, weight_kg, height_half_cm) ==
    LET bmr8 == IF Lower(gender) \in MaleAliases
                THEN 80 * weight_kg + 25 * height_half_cm - 40 * age + 40
                ELSE 80 * weight_kg + 25 * height_half_cm - 40 * age - 1288
    IN  (bmr8 + 4) \div 8

\* mutant: the gender is compared without lower-casing
calculate_bmr_case_sensitive(gender, age, weight_kg, height_half_cm) ==
    LET bmr8 == IF gender \in MaleAliases
                THEN 80 * weight_kg + 25 * height_half_cm - 40 * age + 40
                ELSE 80 * weight_kg + 25 * height_half_cm - 40 * age - 1288
    IN  RoundHalfEven(bmr8, 8)

\* age in years, weight in kg, height in half centimetres; bmr8 is the
\* unrounded value in eighths of a kcal (6.25 * height_cm = 25/8 * half cm),
\* which a double holds exactly; the result is round(bmr, 0) in whole kcal
calculate_bmr(gender, age, weight_kg, height_half_cm) ==
    LET bmr8 == IF Lower(gender) \in MaleAliases
                THEN 80 * weight_kg + 25 * height_half_cm - 40 * age + 40
                ELSE 80 * weight_kg + 25 * height_half_cm - 40 * age - 1288
    IN  RoundHalfEven(bmr8, 8)

-----------------------------------------------------------------------------
(* Body fat (Navy method) *)

\* 10000 * log10(d) to the nearest integer, d in 1..400
Log10Table ==
  <<
     0, 3010, 4771, 6021, 6990, 7782, 8451, 9031, 9542, 10000, 10414, 10792, 11139, 11461, 11761, 12041,
     12304, 12553, 12788, 13010, 13222, 13424, 13617, 13802, 13979, 14150, 14314, 14472, 14624, 14771, 14914, 15051,
     15185, 15315, 15441, 15563, 15682, 15798, 15911, 16021, 16128, 16232, 16335, 16435, 16532, 16628, 16721, 16812,
     16902, 16990, 17076, 17160, 17243, 17324, 17404, 17482, 17559, 17634, 17709, 17782, 17853, 17924, 17993, 18062,
     18129, 18195, 18261, 18325, 18388, 18451, 18513, 18573, 18633, 18692, 18751, 18808, 18865, 18921, 18976, 19031,
     19085, 19138, 19191, 19243, 19294, 19345, 19395, 19445, 19494, 19542, 19590, 19638, 19685, 19731, 19777, 19823,
     19868, 19912, 19956, 20000, 20043, 20086, 20128, 20170, 20212, 20253, 20294, 20334, 20374, 20414, 20453, 20492,
     20531, 20569, 20607, 20645, 20682, 20719, 20755, 20792, 20828, 20864, 20899, 20934, 20969, 21004, 21038, 21072,
     21106, 21139, 21173, 21206, 21239, 21271, 21303, 21335, 21367, 21399, 21430, 21461, 21492, 21523, 21553, 21584,
     21614, 21644, 21673, 21703, 21732, 21761, 21790, 21818, 21847, 21875, 21903, 21931, 21959, 21987, 22014, 22041,
     22068, 22095, 22122, 22148, 22175, 22201, 22227, 22253, 22279, 22304, 22330, 22355, 22380, 22405, 22430, 22455,
     22480, 22504, 22529, 22553, 22577, 22601, 22625, 22648, 22672, 22695, 22718, 22742, 22765, 22788, 22810, 22833,
     22856, 22878, 22900, 22923, 22945, 22967, 22989, 23010, 23032, 23054, 23075, 23096, 23118, 23139, 23160, 23181,
     23201, 23222, 23243, 23263, 23284, 23304, 23324, 23345, 23365, 23385, 23404, 23424, 23444, 23464, 23483, 23502,
     23522, 23541, 23560, 23579, 23598, 23617, 23636, 23655, 23674, 23692, 23711, 23729, 23747, 23766, 23784, 23802,
     23820, 23838, 23856, 23874, 23892, 23909, 23927, 23945, 23962, 23979, 23997, 24014, 24031, 24048, 24065, 24082,
     24099, 24116, 24133, 24150, 24166, 24183, 24200, 24216, 24232, 24249, 24265, 24281, 24298, 24314, 24330, 24346,
     24362, 24378, 24393, 24409, 24425, 24440, 24456, 24472, 24487, 24502, 24518, 24533, 24548, 24564, 24579, 24594,
     24609, 24624, 24639, 24654, 24669, 24683, 24698, 24713, 24728, 24742, 24757, 24771, 24786, 24800, 24814, 24829,
     24843, 24857, 24871, 24886, 24900, 24914, 24928, 24942, 24955, 24969, 24983, 24997, 25011, 25024, 25038, 25051,
     25065, 25079, 25092, 25105, 25119, 25132, 25145, 25159, 25172, 25185, 25198, 25211, 25224, 25237, 25250, 25263,
     25276, 25289, 25302, 25315, 25328, 25340, 25353, 25366, 25378, 25391, 25403, 25416, 25428, 25441, 25453, 25465,
     25478, 25490, 25502, 25514, 25527, 25539, 25551, 25563, 25575, 25587, 25599, 25611, 25623, 25635, 25647, 25658,
     25670, 25682, 25694, 25705, 25717, 25729, 25740, 25752, 25763, 25775, 25786, 25798, 25809, 25821, 25832, 25843,
     25855, 25866, 25877, 25888, 25899, 25911, 25922, 25933, 25944, 25955, 25966, 25977, 25988, 25999, 26010, 26021
  >>

\* math.log10(x) in units of 10^-4; the caller has checked x > 0
Log10E4(x) == Log10Table[x]

\* 495 / val - 450 in tenths of a percent, val in units of 10^-5, val # 0
BfTenths(val5) ==
    IF val5 > 0 THEN RoundHalfEven(495000000, val5) - 4500
    ELSE (0 - RoundHalfEven(495000000, 0 - val5)) - 4500

\* The body of the try block: a Num, or the exception the block raises.
\* Lengths are whole cm; hip_cm may be NoneVal.  val is kept to five decimals
\* (units of 10^-5), which puts the percentage within 0.1 of the double result;
\* which exception is raised, and whether one is, follows the code exactly.
body_fat_try(gender, waist_cm, neck_cm, height_cm, hip_cm) ==
    IF Lower(gender) \in MaleAliases
    THEN IF waist_cm - neck_cm <= 0 THEN Raise("ValueError")
         ELSE IF height_cm <= 0 THEN Raise("ValueError")
         ELSE LET val == 103240
                         - RoundHalfEven(19077 * Log10E4(waist_cm - neck_cm), 10000)
                         + RoundHalfEven(15456 * Log10E4(height_cm), 10000)
              IN  IF val = 0 THEN Raise("ZeroDivisionError")
                  ELSE Num(BfTenths(val))
    ELSE IF hip_cm = NoneVal THEN Raise("TypeError")
         ELSE IF waist_cm + hip_cm.v - neck_cm <= 0 THEN Raise("ValueError")
         ELSE IF height_cm <= 0 THEN Raise("ValueError")
         ELSE LET val == 129579
                         - RoundHalfEven(35004 * Log10E4(waist_cm + hip_cm.v - neck_cm), 10000)
                         + RoundHalfEven(22100 * Log10E4(height_cm), 10000)
              IN  IF val = 0 THEN Raise("ZeroDivisionError")
                  ELSE Num(BfTenths(val))

\* mutant: only arithmetic errors are caught (except (ValueError,
\* ZeroDivisionError)), so the TypeError of a missing hip escapes
body_fat_navy_narrow_except(gender, waist_cm, neck_cm, height_cm, hip_cm) ==
    LET r == body_fat_try(gender, waist_cm, neck_cm, height_cm, hip_cm)
    IN  IF r \in {Raise("ValueError"), Raise("ZeroDivisionError")} THEN NoneVal ELSE r

\* try: ... return round(bf, 1)   except Exception: return None
body_fat_navy(gender, waist_cm, neck_cm, height_cm, hip_cm) ==
    LET r == body_fat_try(gender, waist_cm, neck_cm, height_cm, hip_cm)
    IN  IF "exc" \in DOMAIN r THEN NoneVal ELSE r

\* mutant: from age 40 the Athlete bucket for men extends to 16 percent
bf_interpretation_aged(gender, age, bf) ==
    IF bf = NoneVal THEN "Invalid data for estimation"
    ELSE IF Lower(gender) \in MaleAliases
    THEN IF bf.v < 60 THEN "Essential fat"
         ELSE IF 60 <= bf.v /\ bf.v < (IF age >= 40 THEN 160 ELSE 140) THEN "Athlete"
         ELSE IF bf.v < 180 THEN "Fit"
         ELSE IF 180 <= bf.v /\ bf.v < 250 THEN "Average"
         ELSE "Obese"
    ELSE IF bf.v < 140 THEN "Essential fat"
         ELSE IF 140 <= bf.v /\ bf.v < 210 THEN "Athlete"
         ELSE IF 210 <= bf.v /\ bf.v < 250 THEN "Fit"
         ELSE IF 250 <= bf.v /\ bf.v < 320 THEN "Average"
         ELSE "Obese"

\* bf is NoneVal or Num(tenths of a percent); age is not read
bf_interpretation(gender, age, bf) ==
    IF bf = NoneVal THEN "Invalid data for estimation"
    ELSE IF Lower(gender) \in MaleAliases
    THEN IF bf.v < 60 THEN "Essential fat"
         ELSE IF 60 <= bf.v /\ bf.v < 140 THEN "Athlete"
         ELSE IF 140 <= bf.v /\ bf.v < 180 THEN "Fit"
         ELSE IF 180 <= bf.v /\ bf.v < 250 THEN "Average"
         ELSE "Obese"
    ELSE IF bf.v < 140 THEN "Essential fat"
         ELSE IF 140 <= bf.v /\ bf.v < 210 THEN "Athlete"
         ELSE IF 210 <= bf.v /\ bf.v < 250 THEN "Fit"
         ELSE IF 250 <= bf.v /\ bf.v < 320 THEN "Average"
         ELSE "Obese"

-----------------------------------------------------------------------------
(* Ideal weight (Devine and Hamwi) *)

\* Heights are tenths of a cm.  height_in - 60 = (height10 - 1524) / 25.4, so
\* extra254 below is extra_inches in units of 1/25.4 inch and
\* 10 * (base + rate * extra_inches) = (254 * base10 + 10 * rate10 * extra254) / 254.
\* That quotient is never halfway between two tenths, so round(ideal, 1) is
\* the nearest tenth of the exact value.

\* mutant: extra_inches is not clamped at zero
ideal_weight_devine_unclamped(gender, height10) ==
    LET base10 == IF Lower(gender) \in MaleAliases THEN 500 ELSE 455
        extra254 == height10 - 1524
    IN  RoundHalfEven(254 * base10 + 230 * extra254, 254)

ideal_weight_devine(gender, height10) ==
    LET base10 == IF Lower(gender) \in MaleAliases THEN 500 ELSE 455
        extra254 == Max(0, height10 - 1524)
    IN  RoundHalfEven(254 * base10 + 230 * extra254, 254)

ideal_weight_hamwi(gender, height10) ==
    LET male == Lower(gender) \in MaleAliases
        base10 == IF male THEN 480 ELSE 455
        per_inch10 == IF male THEN 27 ELSE 23
        extra254 == Max(0, height10 - 1524)
    IN  RoundHalfEven(254 * base10 + 10 * per_inch10 * extra254, 254)

\* Whole-kg values x for which the double x * 0.95 lies above the decimal
\* tie x * 0.95 = n.n5 (or equals an exactly representable tie whose even
\* neighbour is the upper one), so that round(x * 0.95, 1) goes up
TieUp095 ==
    {5, 19, 25, 43, 45, 65, 71, 81, 85, 91, 105, 125, 137, 145, 147, 157,
     165, 167, 177, 185, 187}

\* Whole-kg values x for which round(x * 1.05, 1) goes down at the tie
TieDown105 ==
    {5, 19, 25, 33, 43, 45, 61, 65, 71, 81, 85, 91, 105, 125, 127, 137,
     145, 147, 157, 165, 167, 177, 185, 187}

\* round(x * 0.95, 1), x in tenths of a kg, result in tenths
RoundLower(x10) ==
    LET n == x10 * 95
        q == n \div 100
        r == n % 100
    IN  IF r < 50 THEN q
        ELSE IF r > 50 THEN q + 1
        ELSE IF (x10 \div 10) \in TieUp095 THEN q + 1 ELSE q

\* round(x * 1.05, 1), x in tenths of a kg, result in tenths
RoundUpper(x10) ==
    LET n == x10 * 105
        q == n \div 100
        r == n % 100
    IN  IF r < 50 THEN q
        ELSE IF r > 50 THEN q + 1
        ELSE IF (x10 \div 10) \in TieDown105 THEN q ELSE q + 1

\* mutant: the band is taken around the Devine estimate only
ideal_weight_range_devine_only(dev, ham) ==
    [lower |-> RoundLower(dev), upper |-> RoundUpper(dev)]

\* lower = round(min(dev, ham) * 0.95, 1); upper = round(max(dev, ham) * 1.05, 1)
ideal_weight_range(dev, ham) ==
    [lower |-> RoundLower(Min(dev, ham)), upper |-> RoundUpper(Max(dev, ham))]

-----------------------------------------------------------------------------
(* Inputs *)

Str_Male == <<"M", "a", "l", "e">>

Str_Female == <<"F", "e", "m", "a", "l", "e">>

\* the options of the three st.selectbox("Gender:", ("Male", "Female"))
SexOptions == {Str_Male, Str_Female}

\* gender strings handed to the engines directly
Genders ==
    { <<"m", "a", "l", "e">>, Str_Male, <<"M", "A", "L", "E">>, <<"m">>, <<"M">>,
      <<"f", "e", "m", "a", "l", "e">>, Str_Female, <<"f">>, <<"F">>,
      <<"m", "A", "l", "E">>, << >>, <<"x">>, <<"m", "a", "l">>, <<"m", "a", "l", "e", "s">>,
      <<"m", "e", "n">> }

EngineWeightsKg == {0, 20, 70, 400}

EngineHeightsCm == {0 - 170, 0 - 1, 0, 1, 50, 170, 300}

BmiInputs ==
    {NoneVal} \cup {Num(b) : b \in (1800..MaxBmi100) \cup {0 - 100, 0, 1, 1000, 4000, 10000}}

BmrAges == {10, 29, 30, 31, 120}

BmrWeightsKg == 68..MaxWeightKg

BmrHeightsHalfCm == 336..MaxHeightHalfCm

NavyWaists == {30, 37, 40, 80, 200}

NavyNecks == {20, 37, 60, 150}

NavyHeights == {0 - 170, 0, 1, 100, 170}

NavyHips == {NoneVal, Num(5), Num(60), Num(95)}

BfAges == {0, 30, 40, 120}

BfInputs == {NoneVal} \cup {Num(b) : b \in 40..MaxBf10}

\* tenths of a cm: every tenth around the 152.4 cm knee, and sparse heights
\* below, at and above the form's range (120.0 - 250.0 cm)
EngineHeights10 ==
    (1500..MaxHeight10) \cup {0 - 100, 0, 500, 1199, 1200, 1690, 1700, 1701, 2000, 2500, 2501}

\* st.number_input ranges of the Body Fat tab (whole cm)
FormBfHeights == {100, 170}

FormNecks == {37, 60}

FormWaists == {40, 80, 200}

FormHips == {60, 95}

\* st.number_input range of the Ideal Weight tab, 120.0 - 250.0 (tenths of a cm)
FormHeights10 == {1200, 1500, 1524, 1525, 1600, 1650, 1690, 1700, 1800, 1900, 2500}

-----------------------------------------------------------------------------
(* The Streamlit session: one script run per interaction *)

\* st.session_state.get(key, default)
Get(ss, key, default) == IF key \in DOMAIN ss THEN ss[key] ELSE default

\* st.session_state[key] = val
Set(ss, key, val) ==
    [k \in DOMAIN ss \cup {key} |-> IF k = key THEN val ELSE ss[k]]

\* mutant: Prev is not clamped
PrevIndexUnclamped(i) == i - 1

\* mutant: Prev at the first tip wraps to the last one
PrevIndexWrapped(i) == IF i = 0 THEN Len(HEALTH_TIPS) - 1 ELSE i - 1

\* max(0, st.session_state.get("tip_idx", 0) - 1)
PrevIndex(i) == Max(0, i - 1)


\* st.session_state.get("tip_idx", 0) + 1
NextIndex(i) == i + 1

\* HEALTH_TIPS[i % len(HEALTH_TIPS)]  (Python indexes from 0)
TipAt(i) == HEALTH_TIPS[(i % Len(HEALTH_TIPS)) + 1]

\* The Health Tips tab of a run in which button `clicked` returned True:
\* Prev handler, then the tip is rendered, then the Next handler.
TipsTab(ss, clicked) ==
    LET s1 == IF clicked = "Prev"
              THEN Set(ss, "tip_idx", PrevIndex(Get(ss, "tip_idx", 0)))
              ELSE ss
        tip_to_show == TipAt(Get(s1, "tip_idx", 0))
        s2 == IF clicked = "Next"
              THEN Set(s1, "tip_idx", NextIndex(Get(s1, "tip_idx", 0)))
              ELSE s1
    IN  [state |-> s2, tip |-> tip_to_show]

NoOutput == [kind |-> "none"]

\* what a run leaves behind: the session state, and the page it rendered
Run(clicked, out) ==
    LET t == TipsTab(session_state, clicked)
    IN  /\ session_state' = t.state
        /\ page' = [clicked |-> clicked, tip |-> t.tip, out |-> out]

Init ==
    /\ session_state = [k \in {} |-> 0]
    /\ page = [clicked |-> "none", tip |-> TipAt(0), out |-> NoOutput]
    /\ clicks = << >>
    /\ call = [fn |-> "none"]

\* a rerun caused by a widget change: no button returns True
Rerun ==
    /\ Run("none", NoOutput)
    /\ UNCHANGED <<clicks, call>>

ClickPrev ==
    /\ Len(clicks) < MaxClicks
    /\ Run("Prev", NoOutput)
    /\ clicks' = Append(clicks, [btn |-> "Prev", idx |-> Get(session_state', "tip_idx", 0)])
    /\ UNCHANGED call

ClickNext ==
    /\ Len(clicks) < MaxClicks
    /\ Run("Next", NoOutput)
    /\ clicks' = Append(clicks, [btn |-> "Next", idx |-> Get(session_state', "tip_idx", 0)])
    /\ UNCHANGED call

\* Body Fat tab, "Estimate Body Fat %"
BodyFatOutput(sex, height_cm, neck_cm, waist_cm, hip) ==
    LET hip_cm == IF Lower(sex) \in FemaleAliases THEN Num(hip) ELSE NoneVal
        bf == body_fat_navy(sex, waist_cm, neck_cm, height_cm, hip_cm)
    IN  IF bf = NoneVal
        THEN [kind |-> "error"]
        ELSE [kind |-> "bodyfat", bf |-> bf.v, interp |-> bf_interpretation(sex, 0, bf)]

ClickEstimateBodyFat ==
    /\ \E sex \in SexOptions, height_cm \in FormBfHeights, neck_cm \in FormNecks,
          waist_cm \in FormWaists, hip \in FormHips :
          Run("Estimate Body Fat %", BodyFatOutput(sex, height_cm, neck_cm, waist_cm, hip))
    /\ UNCHANGED <<clicks, call>>

\* Ideal Weight tab, "Calculate Ideal Weight"
IdealWeightOutput(sex, height10) ==
    LET dev == ideal_weight_devine(sex, height10)
        ham == ideal_weight_hamwi(sex, height10)
        rng == ideal_weight_range(dev, ham)
    IN  [kind |-> "ideal", dev |-> dev, ham |-> ham,
         lower |-> rng.lower, upper |-> rng.upper]

ClickCalculateIdealWeight ==
    /\ \E sex \in SexOptions, height10 \in FormHeights10 :
          Run("Calculate Ideal Weight", IdealWeightOutput(sex, height10))
    /\ UNCHANGED <<clicks, call>>

Next ==
    \/ Rerun
    \/ ClickPrev
    \/ ClickNext
    \/ ClickEstimateBodyFat
    \/ ClickCalculateIdealWeight

Spec == Init /\ [][Next]_vars

-----------------------------------------------------------------------------
(* One direct call of one engine, on inputs beyond what the forms allow *)

Call_calculate_bmi ==
    /\ call.fn = "none"
    /\ \E w \in EngineWeightsKg, h \in EngineHeightsCm :
          call' = [fn |-> "calculate_bmi", weight_kg |-> w, height_cm |-> h,
                   ret |-> calculate_bmi(w, h)]
    /\ UNCHANGED <<session_state, page, clicks>>

Call_bmi_category ==
    /\ call.fn = "none"
    /\ \E b \in BmiInputs :
          call' = [fn |-> "bmi_category", bmi |-> b, ret |-> bmi_category(b)]
    /\ UNCHANGED <<session_state, page, clicks>>

Call_calculate_bmr ==
    /\ call.fn = "none"
    /\ \E g \in Genders, a \in BmrAges, w \in BmrWeightsKg, h \in BmrHeightsHalfCm :
          call' = [fn |-> "calculate_bmr", gender |-> g, age |-> a, weight_kg |-> w,
                   height_half_cm |-> h, ret |-> calculate_bmr(g, a, w, h)]
    /\ UNCHANGED <<session_state, page, clicks>>

Call_body_fat_navy ==
    /\ call.fn = "none"
    /\ \E g \in Genders, w \in NavyWaists, n \in NavyNecks, h \in NavyHeights,
          hip \in NavyHips :
          call' = [fn |-> "body_fat_navy", gender |-> g, waist_cm |-> w, neck_cm |-> n,
                   height_cm |-> h, hip_cm |-> hip,
                   ret |-> body_fat_navy(g, w, n, h, hip)]
    /\ UNCHANGED <<session_state, page, clicks>>

Call_bf_interpretation ==
    /\ call.fn = "none"
    /\ \E g \in Genders, a \in BfAges, b \in BfInputs :
          call' = [fn |-> "bf_interpretation", gender |-> g, age |-> a, bf |-> b,
                   ret |-> bf_interpretation(g, a, b)]
    /\ UNCHANGED <<session_state, page, clicks>>

Call_ideal_weight_devine ==
    /\ call.fn = "none"
    /\ \E g \in Genders, h \in EngineHeights10 :
          call' = [fn |-> "ideal_weight_devine", gender |-> g, height10 |-> h,
                   ret |-> ideal_weight_devine(g, h)]
    /\ UNCHANGED <<session_state, page, clicks>>

Call_ideal_weight_hamwi ==
    /\ call.fn = "none"
    /\ \E g \in Genders, h \in EngineHeights10 :
          call' = [fn |-> "ideal_weight_hamwi", gender |-> g, height10 |-> h,
                   ret |-> ideal_weight_hamwi(g, h)]
    /\ UNCHANGED <<session_state, page, clicks>>

EngineNext ==
    \/ Call_calculate_bmi
    \/ Call_bmi_category
    \/ Call_calculate_bmr
    \/ Call_body_fat_navy
    \/ Call_bf_interpretation
    \/ Call_ideal_weight_devine
    \/ Call_ideal_weight_hamwi

EngineSpec == Init /\ [][EngineNext]_vars

-----------------------------------------------------------------------------
(* Properties *)

\* the stored tip index as the handlers read it
TipIdx == Get(session_state, "tip_idx", 0)

\* "the gender string lower-cased is 'male' or 'm'", spelled out per character
IsMaleString(g) ==
    \/ /\ Len(g) = 4
       /\ g[1] \in {"m", "M"}
       /\ g[2] \in {"a", "A"}
       /\ g[3] \in {"l", "L"}
       /\ g[4] \in {"e", "E"}
    \/ /\ Len(g) = 1
       /\ g[1] \in {"m", "M"}

Lit_male == <<"m", "a", "l", "e">>

Lit_female == <<"f", "e", "m", "a", "l", "e">>

\* C1: bmi_category returns exactly one of the five labels; "Invalid" iff the
\* bmi is None; otherwise Underweight iff bmi < 18.5, Normal iff
\* 18.5 <= bmi < 25, Overweight iff 25 <= bmi < 30, Obese iff bmi >= 30
\* (18.49 Underweight, 18.5 Normal, 25 Overweight, 29.99 Overweight, 30 Obese).
C1_BmiCategoryBuckets ==
    call.fn = "bmi_category" =>
        /\ call.ret \in {"Invalid", "Underweight", "Normal", "Overweight", "Obese"}
        /\ (call.ret = "Invalid") <=> (call.bmi = NoneVal)
        /\ call.bmi # NoneVal =>
              /\ (call.ret = "Underweight") <=> (call.bmi.v < 1850)
              /\ (call.ret = "Normal") <=> (1850 <= call.bmi.v /\ call.bmi.v < 2500)
              /\ (call.ret = "Overweight") <=> (2500 <= call.bmi.v /\ call.bmi.v < 3000)
              /\ (call.ret = "Obese") <=> (call.bmi.v >= 3000)
              /\ call.bmi.v = 1849 => call.ret = "Underweight"
              /\ call.bmi.v = 1850 => call.ret = "Normal"
              /\ call.bmi.v = 2500 => call.ret = "Overweight"
              /\ call.bmi.v = 2999 => call.ret = "Overweight"
              /\ call.bmi.v = 3000 => call.ret = "Obese"

C1_Witness ==
    /\ call.fn = "bmi_category"
    /\ call.bmi = Num(2500)
    /\ call.ret = "Overweight"

\* the unrounded Mifflin-St Jeor value in eighths of a kcal
MifflinEighths(male, age, weight_kg, height_half_cm) ==
    80 * weight_kg + 25 * height_half_cm - 40 * age + (IF male THEN 40 ELSE 0 - 1288)

\* the unrounded value of the recorded calculate_bmr call
CallBmr8 ==
    MifflinEighths(call.gender = Lit_male, call.age, call.weight_kg, call.height_half_cm)

\* the recorded call is calculate_bmr(g, 30, 70, 170)
CallIsBmrExample(g) ==
    /\ call.gender = g
    /\ call.age = 30
    /\ call.weight_kg = 70
    /\ call.height_half_cm = 340

\* C2 as stated: calculate_bmr("male", 30, 70, 170) = 1643 and
\* calculate_bmr("female", 30, 70, 170) = 1357, and every unrounded value
\* ending in .5 is rounded up, for both genders.
C2_Original ==
    (call.fn = "calculate_bmr" /\ call.gender \in {Lit_male, Lit_female}) =>
        /\ CallIsBmrExample(Lit_male) => call.ret = 1643
        /\ CallIsBmrExample(Lit_female) => call.ret = 1357
        /\ CallBmr8 % 8 = 4 => call.ret = (CallBmr8 \div 8) + 1

\* C2 amended: calculate_bmr returns a whole number nearest to the
\* Mifflin-St Jeor value; a value ending in .5 goes to the even neighbour,
\* for both genders; calculate_bmr("male", 30, 70, 170) = 1618 (from 1617.5)
\* and calculate_bmr("female", 30, 70, 170) = 1452 (from 1451.5).
C2_BmrRoundsHalfToEven ==
    (call.fn = "calculate_bmr" /\ call.gender \in {Lit_male, Lit_female}) =>
        /\ CallIsBmrExample(Lit_male) => (CallBmr8 = 8 * 1617 + 4 /\ call.ret = 1618)
        /\ CallIsBmrExample(Lit_female) => (CallBmr8 = 8 * 1451 + 4 /\ call.ret = 1452)
        /\ CallBmr8 % 8 # 4 =>
              /\ 8 * call.ret - CallBmr8 < 4
              /\ CallBmr8 - 8 * call.ret < 4
        /\ CallBmr8 % 8 = 4 =>
              /\ call.ret \in {CallBmr8 \div 8, (CallBmr8 \div 8) + 1}
              /\ call.ret % 2 = 0

\* a value ending in .5 that is rounded down
C2_Witness ==
    /\ call.fn = "calculate_bmr"
    /\ call.gender = Lit_male
    /\ CallBmr8 % 8 = 4
    /\ 8 * call.ret < CallBmr8

\* the denominator of the Navy formula (units of 10^-5) for the recorded
\* call, where both logarithms are defined
CallNavyDenominator ==
    IF IsMaleString(call.gender)
    THEN 103240 - RoundHalfEven(19077 * Log10E4(call.waist_cm - call.neck_cm), 10000)
                + RoundHalfEven(15456 * Log10E4(call.height_cm), 10000)
    ELSE 129579 - RoundHalfEven(35004 * Log10E4(call.waist_cm + call.hip_cm.v - call.neck_cm), 10000)
                + RoundHalfEven(22100 * Log10E4(call.height_cm), 10000)

\* both logarithm arguments of the recorded body_fat_navy call are positive
CallNavyLogsDefined ==
    /\ call.height_cm > 0
    /\ IF IsMaleString(call.gender)
       THEN call.waist_cm > call.neck_cm
       ELSE call.hip_cm # NoneVal /\ call.waist_cm + call.hip_cm.v > call.neck_cm

BucketLabel(male, bf10) ==
    IF male
    THEN IF bf10 < 60 THEN "Essential fat"
         ELSE IF bf10 < 140 THEN "Athlete"
         ELSE IF bf10 < 180 THEN "Fit"
         ELSE IF bf10 < 250 THEN "Average"
         ELSE "Obese"
    ELSE IF bf10 < 140 THEN "Essential fat"
         ELSE IF bf10 < 210 THEN "Athlete"
         ELSE IF bf10 < 250 THEN "Fit"
         ELSE IF bf10 < 320 THEN "Average"
         ELSE "Obese"

\* C4 as stated: bf_interpretation returns "Invalid" when bf is None, and
\* otherwise the label of the gender's half-open bucket, whatever the age.
C4_Original ==
    call.fn = "bf_interpretation" =>
        /\ call.bf = NoneVal => call.ret = "Invalid"
        /\ call.bf # NoneVal => call.ret = BucketLabel(IsMaleString(call.gender), call.bf.v)

\* C4 amended: bf_interpretation returns "Invalid data for estimation" when
\* bf is None, and otherwise exactly one label by the gender's half-open
\* buckets (male <6, [6,14), [14,18), [18,25), >=25; female <14, [14,21),
\* [21,25), [25,32), >=32), whatever the age.
C4_BfInterpretationBuckets ==
    call.fn = "bf_interpretation" =>
        /\ call.bf = NoneVal => call.ret = "Invalid data for estimation"
        /\ call.bf # NoneVal => call.ret = BucketLabel(IsMaleString(call.gender), call.bf.v)

\* a man of 40 at exactly 14 percent is Fit
C4_Witness ==
    /\ call.fn = "bf_interpretation"
    /\ call.gender = Lit_male
    /\ call.age = 40
    /\ call.bf = Num(140)
    /\ call.ret = "Fit"

\* the gender the engines are claimed to act on
Canonical(g) == IF IsMaleString(g) THEN Lit_male ELSE Lit_female

\* C5: calculate_bmr, bf_interpretation, ideal_weight_devine and
\* ideal_weight_hamwi use the male coefficients iff the lower-cased gender is
\* "male" or "m"; every other string gives exactly the result of "female".
C5_GenderSelection ==
    /\ call.fn = "calculate_bmr" =>
          /\ call.ret = calculate_bmr(Canonical(call.gender), call.age,
                                      call.weight_kg, call.height_half_cm)
          /\ 8 * call.ret - MifflinEighths(IsMaleString(call.gender), call.age,
                                           call.weight_kg, call.height_half_cm) \in (0 - 4)..4
    /\ call.fn = "bf_interpretation" =>
          call.ret = bf_interpretation(Canonical(call.gender), call.age, call.bf)
    /\ call.fn = "ideal_weight_devine" =>
          /\ call.ret = ideal_weight_devine(Canonical(call.gender), call.height10)
          /\ call.height10 <= 1524 =>
                call.ret = (IF IsMaleString(call.gender) THEN 500 ELSE 455)
    /\ call.fn = "ideal_weight_hamwi" =>
          /\ call.ret = ideal_weight_hamwi(Canonical(call.gender), call.height10)
          /\ call.height10 <= 1524 =>
                call.ret = (IF IsMaleString(call.gender) THEN 480 ELSE 455)

\* "MALE" is male: calculate_bmr("MALE", 30, 70, 170) = 1618
C5_Witness ==
    /\ call.fn = "calculate_bmr"
    /\ CallIsBmrExample(<<"M", "A", "L", "E">>)
    /\ call.ret = 1618

\* the stored index before the k-th Prev/Next click of the session
IdxBefore(k) == IF k = 1 THEN 0 ELSE clicks[k - 1].idx

\* clicks a..b were all on button btn
AllClicks(a, b, btn) == \A k \in a..b : clicks[k].btn = btn

\* the stored index after the first p clicks
IdxAfter(p) == IF p = 0 THEN 0 ELSE clicks[p].idx

\* C6: after any sequence of Prev and Next clicks from a fresh session the
\* stored tip index is a non-negative integer: Prev at 0 leaves 0, Prev at
\* i > 0 gives i - 1, Next gives i + 1, and the display position
\* tip_idx mod len(HEALTH_TIPS) is within 0 .. len(HEALTH_TIPS) - 1.
C6_TipIndexNeverNegative ==
    /\ TipIdx \in Nat
    /\ TipIdx = IdxAfter(Len(clicks))
    /\ (TipIdx % Len(HEALTH_TIPS)) \in 0..(Len(HEALTH_TIPS) - 1)
    /\ \A k \in 1..Len(clicks) :
          /\ clicks[k].idx \in Nat
          /\ (clicks[k].btn = "Prev" /\ IdxBefore(k) = 0) => clicks[k].idx = 0
          /\ (clicks[k].btn = "Prev" /\ IdxBefore(k) > 0) => clicks[k].idx = IdxBefore(k) - 1
          /\ clicks[k].btn = "Next" => clicks[k].idx = IdxBefore(k) + 1

\* Prev clicked on a fresh session: the index is stored, and it is 0
C6_Witness ==
    /\ Len(clicks) = 1
    /\ clicks[1].btn = "Prev"
    /\ "tip_idx" \in DOMAIN session_state
    /\ session_state["tip_idx"] = 0

\* C7: from every reachable index i, N Next clicks followed by N Prev clicks
\* bring the stored index back to i; N Prev clicks followed by N Next clicks
\* from an index i < N end at N.
C7_NextThenPrevReturns ==
    \A p \in 0..Len(clicks), n \in 0..Len(clicks) :
        (p + 2 * n <= Len(clicks)) =>
            /\ (AllClicks(p + 1, p + n, "Next") /\ AllClicks(p + n + 1, p + 2 * n, "Prev"))
                  => IdxAfter(p + 2 * n) = IdxAfter(p)
            /\ (AllClicks(p + 1, p + n, "Prev") /\ AllClicks(p + n + 1, p + 2 * n, "Next")
                  /\ IdxAfter(p) < n)
                  => IdxAfter(p + 2 * n) = n

\* Next Next Prev Prev is back at 0; then Prev Next from 0 ends at 1
C7_Witness ==
    /\ Len(clicks) = 6
    /\ AllClicks(1, 2, "Next")
    /\ AllClicks(3, 5, "Prev")
    /\ clicks[6].btn = "Next"
    /\ clicks[4].idx = 0
    /\ TipIdx = 1

\* C8 as stated: the range shown is lower = 0.95 * min(dev, ham) and
\* upper = 1.05 * max(dev, ham), and the estimates 65.0 and 63.0 give
\* (59.85, 68.25).  (Tenths times 100 are thousandths of a kg.)
C8_Original ==
    page.out.kind = "ideal" =>
        /\ 100 * page.out.lower = 95 * Min(page.out.dev, page.out.ham)
        /\ 100 * page.out.upper = 105 * Max(page.out.dev, page.out.ham)
        /\ 100 * ideal_weight_range(650, 630).lower = 59850
        /\ 100 * ideal_weight_range(650, 630).upper = 68250

\* C8 amended: the range shown is lower = 0.95 * min(dev, ham) and
\* upper = 1.05 * max(dev, ham), each rounded to one decimal, whichever
\* estimate is larger; the estimates 65.0 and 63.0 give (59.8, 68.2).
C8_RangeRoundedToOneDecimal ==
    page.out.kind = "ideal" =>
        /\ 100 * page.out.lower - 95 * Min(page.out.dev, page.out.ham) \in (0 - 50)..50
        /\ 100 * page.out.upper - 105 * Max(page.out.dev, page.out.ham) \in (0 - 50)..50
        /\ ideal_weight_range(650, 630) = [lower |-> 598, upper |-> 682]
        /\ ideal_weight_range(630, 650) = [lower |-> 598, upper |-> 682]

\* Male, 170.0 cm: Devine 65.9, Hamwi 66.7, range 62.6 - 70.0
C8_Witness ==
    /\ page.clicked = "Calculate Ideal Weight"
    /\ page.out = [kind |-> "ideal", dev |-> 659, ham |-> 667, lower |-> 626, upper |-> 700]

\* base weight and rate per inch (tenths of a kg) of the recorded call
CallBase10 ==
    IF call.fn = "ideal_weight_devine"
    THEN (IF IsMaleString(call.gender) THEN 500 ELSE 455)
    ELSE (IF IsMaleString(call.gender) THEN 480 ELSE 455)

CallRate10 ==
    IF call.fn = "ideal_weight_devine" THEN 23
    ELSE (IF IsMaleString(call.gender) THEN 27 ELSE 23)

\* 254 * 10 * (base + rate * (height_cm / 2.54 - 60)) for the recorded call
CallIdeal254 == 254 * CallBase10 + 10 * CallRate10 * (call.height10 - 1524)

\* the recorded engine applied to another height
CallEngineAt(h) ==
    IF call.fn = "ideal_weight_devine"
    THEN ideal_weight_devine(call.gender, h)
    ELSE ideal_weight_hamwi(call.gender, h)

\* what C9 says of heights up to 152.4 cm, and of monotonicity
C9_BaseAndMonotone ==
    /\ call.ret >= CallBase10
    /\ call.height10 <= 1524 => call.ret = CallBase10
    /\ \A h \in EngineHeights10 : h <= call.height10 => CallEngineAt(h) <= call.ret

\* C9 as stated: the result is never below the base, is exactly the base up
\* to 152.4 cm, is base + rate * (height_cm / 2.54 - 60) above 152.4 cm, and
\* is non-decreasing in the height.
C9_Original ==
    call.fn \in {"ideal_weight_devine", "ideal_weight_hamwi"} =>
        /\ C9_BaseAndMonotone
        /\ call.height10 > 1524 => 254 * call.ret = CallIdeal254

\* C9 amended: the result is never below the base, is exactly the base up to
\* 152.4 cm, is base + rate * (height_cm / 2.54 - 60) rounded to one decimal
\* above 152.4 cm, and is non-decreasing in the height.
C9_IdealWeightClampedAtBase ==
    call.fn \in {"ideal_weight_devine", "ideal_weight_hamwi"} =>
        /\ C9_BaseAndMonotone
        /\ call.height10 > 1524 =>
              /\ 2 * (254 * call.ret - CallIdeal254) < 254
              /\ 2 * (CallIdeal254 - 254 * call.ret) < 254

\* the shortest height the form accepts, 120.0 cm: the female base
C9_Witness ==
    /\ call.fn = "ideal_weight_devine"
    /\ call.gender = Str_Female
    /\ call.height10 = 1200
    /\ call.ret = 455

\* C10: at the end of a run that handled a Prev or Next click, the tip on the
\* page is HEALTH_TIPS[tip_idx mod len(HEALTH_TIPS)] for the stored tip_idx.
C10_ShownTipIsStoredTip ==
    page.clicked \in {"Prev", "Next"} => page.tip = TipAt(TipIdx)

====
